---- MODULE Spec2Model ----
(***************************************************************************)
(* Model of the analysis orchestration of the blood-smear application:     *)
(* server/src/controllers/analysisController.js (createAnalysis,           *)
(* processAnalysis and its deferred completion callback, getAnalysisById,  *)
(* deleteAnalysis, runAIInference, generateMockAnalysisResults).           *)
(*                                                                         *)
(* Numbers with two decimals (confidenceScore, probability, percentage)    *)
(* are held in hundredths: 8512 stands for 85.12.  Math.random() is a      *)
(* value k/RandDen with k in 0..RandDen-1.                                 *)
(*                                                                         *)
(* Beside it: the Upload component (src/components/Upload.tsx), the        *)
(* HistoryPage component (src/components/HistoryPage.tsx) and the          *)
(* analytics controller (getDashboardStats, getMonthlyData), each under a  *)
(* specification of its own.                                               *)
(***************************************************************************)
EXTENDS Integers, Sequences, FiniteSets, TLC

\* ------------------------------------------------------------------ bounds
RandDen == 10
MaxAnalyses == 2
MaxTasks == 2
MaxFaults == 1
MaxExtras == 2
MaxRuns == 2
MaxChunks == 2
MaxRows == 2
MaxStored == 1

\* --------------------------------------------------------- program tables
DISEASE_TYPES ==
  << "Normal", "Malaria (Plasmodium)", "Babesia", "Leishmania",
     "Acute Lymphoblastic Leukemia", "Chronic Lymphocytic Leukemia",
     "Acute Myeloid Leukemia", "Chronic Myeloid Leukemia",
     "Anemia", "Thrombocytopenia" >>

CELL_TYPES ==
  << [name |-> "Neutrophils", lo |-> 40, hi |-> 60],
     [name |-> "Lymphocytes", lo |-> 20, hi |-> 40],
     [name |-> "Monocytes",   lo |-> 2,  hi |-> 8],
     [name |-> "Eosinophils", lo |-> 1,  hi |-> 4],
     [name |-> "Basophils",   lo |-> 0,  hi |-> 1] >>

DiseaseNames == { DISEASE_TYPES[i] : i \in 1..Len(DISEASE_TYPES) }
CellNames == { CELL_TYPES[i].name : i \in 1..Len(CELL_TYPES) }

\* String.prototype.includes on the fixed labels, by table.
IncludesLeukemia(d) ==
  d \in { "Acute Lymphoblastic Leukemia", "Chronic Lymphocytic Leukemia",
          "Acute Myeloid Leukemia", "Chronic Myeloid Leukemia" }
IncludesMalaria(d) == d = "Malaria (Plasmodium)"
IncludesBabesia(d) == d = "Babesia"
IncludesAnemia(d) == d = "Anemia"

\* ------------------------------------------------------------- arithmetic
\* Math.round(n/d) for n >= 0, d > 0: floor(n/d + 1/2).
RoundDiv(n, d) == (2 * n + d) \div (2 * d)

\* The i-th call of Math.random() (i = 0, 1, ...) under a random source
\* given by its first draw and a stride over the grid 0..RandDen-1.
Rand(seed, i) == (seed.start + i * seed.stride) % RandDen

Seeds == [start : 0..(RandDen - 1), stride : 0..(RandDen - 1)]

\* ------------------------------------------------------- Result Generator
\* A variant that compares idx with the index counted from 0.
MockClassificationFromZero(seed, idx) ==
  LET diseaseIndex == (Rand(seed, 0) * Len(DISEASE_TYPES)) \div RandDen
      k == Rand(seed, 1)
      r == Rand(seed, 1 + idx)
      disease == DISEASE_TYPES[idx]
  IN  [ diseaseName |-> disease,
        probability |->
          IF idx = diseaseIndex
            THEN RoundDiv(8500 * RandDen + 1200 * k, RandDen)
            ELSE RoundDiv(10 * r * (15 * RandDen - 12 * k), RandDen * RandDen),
        cellAbnormalities |->
          IF idx = diseaseIndex
            THEN << IncludesMalaria(disease) \/ IncludesBabesia(disease),
                    IncludesLeukemia(disease),
                    2 * r > RandDen >>
            ELSE << >> ]

\* Entries of DISEASE_TYPES.map(...) before the sort; draw 2+idx is the one
\* call of Math.random() made for index idx (probability of a non-primary
\* entry, cellSizeVariation of the primary one).
MockClassification(seed, idx) ==
  LET diseaseIndex == (Rand(seed, 0) * Len(DISEASE_TYPES)) \div RandDen + 1
      k == Rand(seed, 1)
      r == Rand(seed, 1 + idx)
      disease == DISEASE_TYPES[idx]
  IN  [ diseaseName |-> disease,
        probability |->
          IF idx = diseaseIndex
            THEN RoundDiv(8500 * RandDen + 1200 * k, RandDen)
            ELSE RoundDiv(10 * r * (15 * RandDen - 12 * k), RandDen * RandDen),
        cellAbnormalities |->
          IF idx = diseaseIndex
            THEN << IncludesMalaria(disease) \/ IncludesBabesia(disease),
                    IncludesLeukemia(disease),
                    2 * r > RandDen >>
            ELSE << >> ]

\* A variant of the insertion that keeps one of two entries that compare
\* equal.
RECURSIVE InsertDescDistinct(_, _, _)
InsertDescDistinct(s, x, field) ==
  IF s = << >> THEN << x >>
  ELSE IF Head(s)[field] = x[field] THEN s
  ELSE IF Head(s)[field] > x[field]
         THEN << Head(s) >> \o InsertDescDistinct(Tail(s), x, field)
         ELSE << x >> \o s

\* Array.prototype.sort with (a, b) => b.probability - a.probability:
\* stable, descending by probability.
RECURSIVE InsertDesc(_, _, _)
InsertDesc(s, x, field) ==
  IF s = << >> THEN << x >>
  ELSE IF Head(s)[field] >= x[field]
         THEN << Head(s) >> \o InsertDesc(Tail(s), x, field)
         ELSE << x >> \o s

RECURSIVE SortDesc(_, _)
SortDesc(s, field) ==
  IF s = << >> THEN << >>
  ELSE InsertDesc(SortDesc(SubSeq(s, 1, Len(s) - 1), field), s[Len(s)], field)

\* CELL_TYPES.map(...): returns the rows built from cell type i on, the
\* next unused draw being number n.
RECURSIVE MockCellCounts(_, _, _, _)
MockCellCounts(seed, primaryDisease, i, n) ==
  IF i > Len(CELL_TYPES) THEN [rows |-> << >>, next |-> n]
  ELSE
    LET leuk == IncludesLeukemia(primaryDisease)
        isAbnormal == leuk /\ 10 * Rand(seed, n) > 3 * RandDen
        n1 == IF leuk THEN n + 1 ELSE n
        r == Rand(seed, n1)
        lo == CELL_TYPES[i].lo
        hi == CELL_TYPES[i].hi
        percentage ==
          IF isAbnormal
            THEN RoundDiv(100 * lo * RandDen + 3000 * r, RandDen)
            ELSE RoundDiv(100 * lo * RandDen + 100 * (hi - lo) * r, RandDen)
        count == percentage
        n2 == n1 + 1
        abnormalCount ==
          IF isAbnormal
            THEN (count * (2 * RandDen + 3 * Rand(seed, n2))) \div (10 * RandDen)
            ELSE 0
        n3 == IF isAbnormal THEN n2 + 1 ELSE n2
        rest == MockCellCounts(seed, primaryDisease, i + 1, n3)
    IN  [ rows |-> << [ cellType |-> CELL_TYPES[i].name,
                        count |-> count,
                        percentage |-> percentage,
                        abnormalCount |-> abnormalCount ] >> \o rest.rows,
          next |-> rest.next ]

\* An optional field is << >> while unset (undefined) and << v >> when set.
Unset == << >>
Some(v) == << v >>

generateMockAnalysisResults(seed) ==
  LET diseaseIndex == (Rand(seed, 0) * Len(DISEASE_TYPES)) \div RandDen + 1
      primaryDisease == DISEASE_TYPES[diseaseIndex]
      k == Rand(seed, 1)
      cells == MockCellCounts(seed, primaryDisease, 1, 2 + Len(DISEASE_TYPES))
      n == cells.next
  IN  [ diseaseDetected |-> Some(primaryDisease),
        confidenceScore |-> Some(RoundDiv(8500 * RandDen + 1200 * k, RandDen)),
        rbcCount |-> Some(4500000 + (Rand(seed, n) * 1000000) \div RandDen),
        wbcCount |-> Some(4000 + (Rand(seed, n + 1) * 7000) \div RandDen),
        plateletCount |->
          Some(150000 + (Rand(seed, n + 2) * 250000) \div RandDen),
        analysisNotes |->
          Some(IF primaryDisease = "Normal" THEN "normal morphology"
               ELSE IF IncludesMalaria(primaryDisease) THEN "plasmodium"
               ELSE IF IncludesLeukemia(primaryDisease) THEN "blast cells"
               ELSE IF IncludesAnemia(primaryDisease) THEN "reduced rbc"
               ELSE "abnormal findings"),
        diseaseClassifications |->
          Some(SortDesc([ idx \in 1..Len(DISEASE_TYPES) |->
                            MockClassification(seed, idx) ], "probability")),
        cellCounts |-> Some(cells.rows) ]

\* ------------------------------------------ Result Generator of the client
\* generateAnalysisResults of the browser client: its tables, and the
\* values it writes to analyses, disease_classifications and cell_counts.
\* Draws 0..4 give primaryIndex, confidenceScore, rbcCount, wbcCount and
\* plateletCount, draws 5..13 the probabilities of the nine non-primary
\* diseases in table order, draws 14.. the percentage and the abnormal
\* count of each cell type.  Nothing is rounded by the code; hundredths
\* are held to the hundredth below.
diseases ==
  << "Normal Blood Smear",
     "Malaria - Plasmodium infection",
     "Babesiosis - Babesia infection",
     "Leishmaniasis - Leishmania infection",
     "Trypanosomiasis - Trypanosome infection",
     "Basophilia - Elevated basophil count",
     "Eosinophilia - Elevated eosinophil count",
     "Lymphocytosis - Elevated lymphocyte count",
     "Monocytosis - Elevated monocyte count",
     "Neutrophilia - Elevated neutrophil count" >>

cellTypes ==
  << [name |-> "Neutrophils", lo |-> 40, hi |-> 60],
     [name |-> "Lymphocytes", lo |-> 20, hi |-> 40],
     [name |-> "Monocytes", lo |-> 2, hi |-> 8],
     [name |-> "Eosinophils", lo |-> 1, hi |-> 4],
     [name |-> "Basophils", lo |-> 0, hi |-> 1] >>

generateAnalysisResults(seed) ==
  LET primaryIndex == (Rand(seed, 0) * Len(diseases)) \div RandDen + 1
      k == Rand(seed, 1)
      confidenceScore == (8500 * RandDen + 1200 * k) \div RandDen
      \* the draw made for the non-primary disease idx
      draw(idx) == Rand(seed, IF idx < primaryIndex THEN 4 + idx ELSE 3 + idx)
      first == 4 + Len(diseases)
  IN  [ diseaseDetected |-> Some(diseases[primaryIndex]),
        confidenceScore |-> Some(confidenceScore),
        rbcCount |-> Some(4000000 + (Rand(seed, 2) * 2000000) \div RandDen),
        wbcCount |-> Some(4000 + (Rand(seed, 3) * 7000) \div RandDen),
        plateletCount |->
          Some(150000 + (Rand(seed, 4) * 250000) \div RandDen),
        analysisNotes |-> Unset,
        diseaseClassifications |->
          Some([ idx \in 1..Len(diseases) |->
                 [ diseaseName |-> diseases[idx],
                   probability |->
                     IF idx = primaryIndex THEN confidenceScore
                     ELSE (draw(idx) * (1500 * RandDen - 1200 * k))
                            \div (RandDen * RandDen),
                   cellAbnormalities |-> << >> ] ]),
        cellCounts |->
          Some([ i \in 1..Len(cellTypes) |->
                 LET min == cellTypes[i].lo
                     max == cellTypes[i].hi
                     percentage ==
                       (100 * min * RandDen
                          + 100 * (max - min) * Rand(seed, first + 2 * (i - 1)))
                         \div RandDen
                 IN  [ cellType |-> cellTypes[i].name,
                       count |-> percentage,
                       percentage |-> percentage,
                       abnormalCount |->
                         (Rand(seed, first + 2 * i - 1) * 10) \div RandDen ] ]) ]

\* ------------------------------------------------------ Inference Invoker
\* The inference runtime (python3, the script, the model file) is external.
\* It is in one condition throughout a behaviour: absent or failing (exec
\* rejects, JSON.parse throws or success is falsy), answering with a
\* well-formed result, or answering success without one of the tables.
RuntimeStates == { "absent", "ok", "noClassifications", "noCellCounts" }

WellFormedOutput == generateMockAnalysisResults([start |-> 1, stride |-> 1])

\* What runAIInference returns: null (unset) from the catch block, the
\* parsed JSON otherwise.
runAIInference(rt) ==
  IF rt = "absent" THEN Unset
  ELSE IF rt = "ok" THEN Some(WellFormedOutput)
  ELSE IF rt = "noClassifications"
    THEN Some([WellFormedOutput EXCEPT !.diseaseClassifications = Unset])
  ELSE Some([WellFormedOutput EXCEPT !.cellCounts = Unset])

\* Random sources offered to the completion callbacks.
TaskSeeds ==
  { [start |-> 0, stride |-> 1], [start |-> RandDen - 1, stride |-> 0] }

\* generateMockAnalysisResults under each of these sources.
MockResults == [seed \in TaskSeeds |-> generateMockAnalysisResults(seed)]

\* ------------------------------------------------------------------ state
Users == { "u1", "u2" }
ImageUrls == { "", "img-1" }
Ids == 1..MaxAnalyses
TaskIds == 1..MaxTasks

ResultFields ==
  { "diseaseDetected", "confidenceScore", "rbcCount", "wbcCount",
    "plateletCount", "analysisNotes" }

VARIABLES
  analyses,                \* Analysis collection: _id -> document
  nextId,                  \* number of _ids handed out
  diseaseClassifications,  \* DiseaseClassification collection
  cellCounts,              \* CellCount collection
  notifications,           \* Notification collection
  now,                     \* clock read by new Date()
  req,                     \* the HTTP request being handled
  response,                \* the HTTP response sent by the last step, if any
  tasks,                   \* deferred completion callbacks (setTimeout)
  nTasks,                  \* number of callbacks scheduled
  faults,                  \* number of store operations that failed
  runtime,                 \* condition of the inference runtime
  gen,                     \* a result generator run on its own
  upload,                  \* state of the Upload component
  history,                 \* state of the HistoryPage component
  stats                    \* an analytics request served on its own

vars ==
  << analyses, nextId, diseaseClassifications, cellCounts, notifications,
     now, req, response, tasks, nTasks, faults, runtime, gen,
     upload, history, stats >>

\* The browser components and the analytics request.
pages == << upload, history, stats >>

store == << analyses, nextId, diseaseClassifications, cellCounts,
            notifications, now >>

\* A Mongoose document in memory: its values and its modified paths.
NoDoc == [vals |-> << >>, modified |-> {}]

\* doc.field = v marks the path modified when the value changes.
DocSet(m, field, v) ==
  IF m.vals[field] = v THEN m
  ELSE [vals |-> [m.vals EXCEPT ![field] = v],
        modified |-> m.modified \cup {field}]

\* The document a successful save() leaves in the collection: the modified
\* paths are written, the others are left as stored.
\* A variant that writes the status path alone.
SavedStatusAlone(stored, m) ==
  [f \in DOMAIN stored |->
     IF f \in m.modified /\ f = "status" THEN m.vals[f] ELSE stored[f]]

Saved(stored, m) ==
  [f \in DOMAIN stored |-> IF f \in m.modified THEN m.vals[f] ELSE stored[f]]

\* save() rejects with DocumentNotFoundError when the document is gone.
CanSave(id) == id \in DOMAIN analyses

\* A behaviour has one analysis and one accepted processAnalysis call, and
\* further events within a budget of MaxExtras: a store operation that
\* fails takes one unit of it, a further analysis or a further accepted
\* processAnalysis call (counted from its findById on) takes two.
Over(n) == IF n > 1 THEN n - 1 ELSE 0
Used ==
  faults + 2 * Over(nextId)
         + 2 * Over(nTasks + (IF req.op = "process" THEN 1 ELSE 0))
Spare(cost) == Used + cost <= MaxExtras

\* A store operation fails (the connection drops, the server rejects it).
Fault == faults < MaxFaults /\ Spare(1) /\ faults' = faults + 1
NoFault == faults' = faults

\* A request inside handler op at position pc, holding the document doc
\* (and, in getAnalysisById, the classification rows read).
Handling(op, pc, id, user, doc, rows) ==
  [op |-> op, pc |-> pc, id |-> id, user |-> user, doc |-> doc,
   classifications |-> rows]

Idle == Handling("none", "idle", 0, "u1", NoDoc, << >>)

\* res.status(code).json(body)
Reply(code, body) == [code |-> code, body |-> body]
NoResponse == Reply(0, << >>)

\* The client sends a request once the previous one has been answered.
Ready == req.pc = "idle"

IdleTask ==
  [pc |-> "none", id |-> 0, user |-> "u1", doc |-> NoDoc, aiResults |-> Unset,
   error |-> "none"]

\* No result generator is being run on its own.
NoGen == [pc |-> "none", seed |-> [start |-> 0, stride |-> 0], result |-> Unset]

\* The server after start-up: empty collections, no request, no callback.
Started ==
  /\ analyses = << >>
  /\ nextId = 0
  /\ diseaseClassifications = << >>
  /\ cellCounts = << >>
  /\ notifications = {}
  /\ now = 0
  /\ req = Idle
  /\ response = NoResponse
  /\ tasks = [t \in TaskIds |-> IdleTask]
  /\ nTasks = 0
  /\ faults = 0

\* The Upload component as mounted (useState initial values, 23-28): no run
\* of handleUpload has started.
NoRun == [pc |-> "none", loaded |-> 0, interval |-> FALSE, ticks |-> 0]

NoUpload ==
  [ selectedFile |-> Unset, uploadStatus |-> "idle", progress |-> 0,
    error |-> Unset, runs |-> [r \in 1..MaxRuns |-> NoRun] ]

\* The HistoryPage component as mounted (useState initial values, 35-40): no
\* delete request is in flight.
NoHistory ==
  [ loading |-> TRUE, analyses |-> << >>, filteredAnalyses |-> << >>,
    searchTerm |-> << >>, statusFilter |-> "all", selectedIds |-> {},
    deleting |-> Unset ]

Mounted == upload = NoUpload /\ history = NoHistory

\* No analytics request is being served on its own.
NoStats == [pc |-> "none", now |-> << >>, analyses |-> << >>, result |-> Unset]

Init ==
  /\ Started
  /\ runtime \in RuntimeStates
  /\ gen = NoGen
  /\ Mounted
  /\ stats = NoStats

\* ---------------------------------------------------------- createAnalysis
\* A variant that creates the document already in processing.
NewAnalysisProcessing(user, imageUrl) ==
  [ userId |-> user, imageUrl |-> imageUrl, status |-> "processing",
    diseaseDetected |-> Unset, confidenceScore |-> Unset,
    rbcCount |-> Unset, wbcCount |-> Unset, plateletCount |-> Unset,
    analysisNotes |-> Unset, completedAt |-> Unset ]

NewAnalysis(user, imageUrl) ==
  [ userId |-> user, imageUrl |-> imageUrl, status |-> "pending",
    diseaseDetected |-> Unset, confidenceScore |-> Unset,
    rbcCount |-> Unset, wbcCount |-> Unset, plateletCount |-> Unset,
    analysisNotes |-> Unset, completedAt |-> Unset ]

createAnalysis(user, imageUrl) ==
  /\ Ready
  /\ \/ /\ imageUrl = ""
        /\ response' = Reply(400, << >>)
        /\ UNCHANGED << analyses, nextId >>
        /\ NoFault
     \/ /\ imageUrl # ""
        /\ nextId < MaxAnalyses
        /\ nextId = 0 \/ Spare(2)
        /\ analyses' = analyses @@ ((nextId + 1) :> NewAnalysis(user, imageUrl))
        /\ nextId' = nextId + 1
        /\ response' = Reply(201, NewAnalysis(user, imageUrl))
        /\ NoFault
     \/ /\ imageUrl # ""
        /\ Fault
        /\ response' = Reply(500, << >>)
        /\ UNCHANGED << analyses, nextId >>
  /\ UNCHANGED << diseaseClassifications, cellCounts, notifications, now,
                  req, tasks, nTasks, runtime, gen, pages >>

\* A variant of the checks without the ownership test.
LoadCodeAnyUser(id, user) ==
  IF id \notin DOMAIN analyses THEN 404 ELSE 0

\* findById and the two checks that open processAnalysis, getAnalysisById
\* and deleteAnalysis: the status code they answer with, 0 when both pass.
LoadCode(id, user) ==
  IF id \notin DOMAIN analyses THEN 404
  ELSE IF analyses[id].userId # user THEN 403
  ELSE 0

Loaded(id) == [vals |-> analyses[id], modified |-> {}]

\* The request and the response after findById and the checks, the handler
\* going on at position pc with document doc when both checks pass.
AfterLoad(op, pc, id, user, doc) ==
  \/ /\ NoFault
     /\ LoadCode(id, user) # 0
     /\ response' = Reply(LoadCode(id, user), << >>)
     /\ req' = Idle
  \/ /\ NoFault
     /\ LoadCode(id, user) = 0
     /\ response' = NoResponse
     /\ req' = Handling(op, pc, id, user, doc, << >>)
  \/ /\ Fault
     /\ response' = Reply(500, << >>)
     /\ req' = Idle

\* --------------------------------------------------------- processAnalysis
\* findById, the 404/403 checks and analysis.status = 'processing'.
ProcLoad(id, user) ==
  /\ Ready
  /\ \/ LoadCode(id, user) # 0
     \/ nTasks < MaxTasks /\ (nTasks = 0 \/ Spare(2))
  /\ AfterLoad("process", "save", id, user,
               IF id \in DOMAIN analyses
                 THEN DocSet(Loaded(id), "status", "processing")
                 ELSE NoDoc)
  /\ UNCHANGED << store, tasks, nTasks, runtime, gen, pages >>

\* await analysis.save(); setTimeout(callback, 2000); res.json(...).
ProcSave ==
  /\ req.op = "process" /\ req.pc = "save"
  /\ \/ /\ CanSave(req.id)
        /\ NoFault
        /\ analyses' = [analyses EXCEPT ![req.id] = Saved(@, req.doc)]
        /\ nTasks' = nTasks + 1
        /\ tasks' = [tasks EXCEPT ![nTasks + 1] =
             [ pc |-> "timer", id |-> req.id, user |-> req.user,
               doc |-> [req.doc EXCEPT !.modified = {}],
               aiResults |-> Unset, error |-> "none" ]]
        /\ response' = Reply(200, << >>)
     \/ /\ \/ ~CanSave(req.id) /\ NoFault
           \/ Fault
        /\ response' = Reply(500, << >>)
        /\ UNCHANGED << analyses, tasks, nTasks >>
  /\ req' = Idle
  /\ UNCHANGED << nextId, diseaseClassifications, cellCounts, notifications,
                  now, runtime, gen, pages >>

\* ------------------------------------------- the deferred completion callback
\* catch (error) { ...; analysis.status = 'failed'; : entry of the catch block
\* with the error thrown, a rejected store operation ("store") or the
\* TypeError of mapping over a missing table.
Caught(task, error) ==
  [task EXCEPT !.pc = "catchSave", !.error = error,
               !.doc = DocSet(@, "status", "failed")]

\* The callback has returned, or its promise has rejected.
Finished(task, pc) ==
  [task EXCEPT !.pc = pc, !.doc = NoDoc, !.aiResults = Unset,
               !.error = "none"]

\* A variant of the assignments without the one to analysisNotes.
WithResultsNoNotes(m, r, date) ==
  LET new == [ status |-> "completed",
               diseaseDetected |-> r.diseaseDetected,
               confidenceScore |-> r.confidenceScore,
               rbcCount |-> r.rbcCount,
               wbcCount |-> r.wbcCount,
               plateletCount |-> r.plateletCount,
               completedAt |-> Some(date) ]
  IN  [vals |-> [f \in DOMAIN m.vals |->
                   IF f \in DOMAIN new THEN new[f] ELSE m.vals[f]],
       modified |-> m.modified \cup
                      {f \in DOMAIN new : m.vals[f] # new[f]}]

\* Lines 181-188: the assignments to the in-memory document.
WithResults(m, r, date) ==
  LET new == [ status |-> "completed",
               diseaseDetected |-> r.diseaseDetected,
               confidenceScore |-> r.confidenceScore,
               rbcCount |-> r.rbcCount,
               wbcCount |-> r.wbcCount,
               plateletCount |-> r.plateletCount,
               analysisNotes |-> r.analysisNotes,
               completedAt |-> Some(date) ]
  IN  [vals |-> [f \in DOMAIN m.vals |->
                   IF f \in DOMAIN new THEN new[f] ELSE m.vals[f]],
       modified |-> m.modified \cup
                      {f \in DOMAIN new : m.vals[f] # new[f]}]

\* The timer fires: runAIInference, the fallback to the Result Generator,
\* the assignments of lines 181-188 and await analysis.save() of line 189.
SaveResult(t) ==
  /\ tasks[t].pc = "timer"
  /\ now' = now + 1
  /\ \E seed \in TaskSeeds :
       LET out == runAIInference(runtime)
           aiResults == IF out = Unset
                          THEN MockResults[seed]
                          ELSE out[1]
           doc == WithResults(tasks[t].doc, aiResults, now')
       IN  \/ /\ CanSave(tasks[t].id)
              /\ NoFault
              /\ analyses' = [analyses EXCEPT ![tasks[t].id] = Saved(@, doc)]
              /\ tasks' = [tasks EXCEPT ![t] =
                   [@ EXCEPT !.pc = "classes", !.aiResults = Some(aiResults),
                             !.doc = [doc EXCEPT !.modified = {}]]]
           \/ /\ \/ ~CanSave(tasks[t].id) /\ NoFault
                 \/ Fault
              /\ tasks' = [tasks EXCEPT ![t] =
                   Caught([@ EXCEPT !.aiResults = Some(aiResults),
                                    !.doc = doc], "store")]
              /\ UNCHANGED analyses
  /\ response' = NoResponse
  /\ UNCHANGED << nextId, diseaseClassifications, cellCounts, notifications,
                  req, nTasks, runtime, gen, pages >>

\* How many of n documents a failing ordered insertMany has inserted:
\* none of them, or all but the last.
PrefixLens(n) == { 0, n - 1 }

\* A variant that tags the rows with the _id of the newest analysis.
WithNewestId(rows, id) ==
  [i \in 1..Len(rows) |-> [analysisId |-> nextId] @@ rows[i]]

\* rows.map(r => ({ analysisId, ...r }))
WithAnalysisId(rows, id) ==
  [i \in 1..Len(rows) |-> [analysisId |-> id] @@ rows[i]]

\* Lines 191-195: map over aiResults.diseaseClassifications (a TypeError
\* when the table is missing) and insertMany, which is ordered: a failure
\* leaves the documents before the failing one inserted.
InsertClassifications(t) ==
  /\ tasks[t].pc = "classes"
  /\ LET table == tasks[t].aiResults[1].diseaseClassifications
     IN  \/ /\ table = Unset
            /\ NoFault
            /\ tasks' = [tasks EXCEPT ![t] = Caught(@, "TypeError")]
            /\ UNCHANGED diseaseClassifications
         \/ /\ table # Unset
            /\ NoFault
            /\ diseaseClassifications' =
                 diseaseClassifications \o WithAnalysisId(table[1], tasks[t].id)
            /\ tasks' = [tasks EXCEPT ![t].pc = "cells"]
         \/ /\ table # Unset
            /\ Fault
            /\ \E k \in PrefixLens(Len(table[1])) :
                 diseaseClassifications' = diseaseClassifications \o
                   WithAnalysisId(SubSeq(table[1], 1, k), tasks[t].id)
            /\ tasks' = [tasks EXCEPT ![t] = Caught(@, "store")]
  /\ response' = NoResponse
  /\ UNCHANGED << analyses, nextId, cellCounts, notifications, now,
                  req, nTasks, runtime, gen, pages >>

\* Lines 197-201.
\* A variant that goes on to the notification without the insert having
\* been made (insertMany not awaited).
InsertCellCountsUnawaited(t) ==
  /\ tasks[t].pc = "cells"
  /\ NoFault
  /\ tasks' = [tasks EXCEPT ![t].pc = "notify"]
  /\ response' = NoResponse
  /\ UNCHANGED << analyses, nextId, diseaseClassifications, cellCounts,
                  notifications, now, req, nTasks, runtime, gen, pages >>

InsertCellCounts(t) ==
  /\ tasks[t].pc = "cells"
  /\ LET table == tasks[t].aiResults[1].cellCounts
     IN  \/ /\ table = Unset
            /\ NoFault
            /\ tasks' = [tasks EXCEPT ![t] = Caught(@, "TypeError")]
            /\ UNCHANGED cellCounts
         \/ /\ table # Unset
            /\ NoFault
            /\ cellCounts' = cellCounts \o WithAnalysisId(table[1], tasks[t].id)
            /\ tasks' = [tasks EXCEPT ![t].pc = "notify"]
         \/ /\ table # Unset
            /\ Fault
            /\ \E k \in PrefixLens(Len(table[1])) :
                 cellCounts' = cellCounts \o
                   WithAnalysisId(SubSeq(table[1], 1, k), tasks[t].id)
            /\ tasks' = [tasks EXCEPT ![t] = Caught(@, "store")]
  /\ response' = NoResponse
  /\ UNCHANGED << analyses, nextId, diseaseClassifications, notifications,
                  now, req, nTasks, runtime, gen, pages >>

\* A variant that returns without creating the notification.
NotifySuccessSkipped(t) ==
  /\ tasks[t].pc = "notify"
  /\ NoFault
  /\ tasks' = [tasks EXCEPT ![t] = Finished(@, "done")]
  /\ response' = NoResponse
  /\ UNCHANGED << analyses, nextId, diseaseClassifications, cellCounts,
                  notifications, now, req, nTasks, runtime, gen, pages >>

\* Lines 203-209.  run identifies the callback that wrote the document;
\* disease is the label the message quotes.
NotifySuccess(t) ==
  /\ tasks[t].pc = "notify"
  /\ \/ /\ NoFault
        /\ notifications' = notifications \cup
             { [ run |-> t, userId |-> tasks[t].user, type |-> "success",
                 title |-> "Analysis Complete",
                 disease |-> tasks[t].aiResults[1].diseaseDetected,
                 analysisId |-> tasks[t].id ] }
        /\ tasks' = [tasks EXCEPT ![t] = Finished(@, "done")]
     \/ /\ Fault
        /\ tasks' = [tasks EXCEPT ![t] = Caught(@, "store")]
        /\ UNCHANGED notifications
  /\ response' = NoResponse
  /\ UNCHANGED << analyses, nextId, diseaseClassifications, cellCounts, now,
                  req, nTasks, runtime, gen, pages >>

\* Line 213: await analysis.save() inside the catch block; a rejection here
\* leaves the callback as an unhandled rejection.  The store that has just
\* rejected a write of this callback may reject this one too.
CatchSave(t) ==
  /\ tasks[t].pc = "catchSave"
  /\ \/ /\ CanSave(tasks[t].id)
        /\ NoFault
        /\ analyses' = [analyses EXCEPT ![tasks[t].id] = Saved(@, tasks[t].doc)]
        /\ tasks' = [tasks EXCEPT ![t] =
             [@ EXCEPT !.pc = "catchNotify", !.doc.modified = {}]]
     \/ /\ \/ ~CanSave(tasks[t].id) /\ NoFault
           \/ tasks[t].error = "store" /\ NoFault
           \/ Fault
        /\ tasks' = [tasks EXCEPT ![t] = Finished(@, "rejected")]
        /\ UNCHANGED analyses
  /\ response' = NoResponse
  /\ UNCHANGED << nextId, diseaseClassifications, cellCounts, notifications,
                  now, req, nTasks, runtime, gen, pages >>

\* Lines 215-221.
CatchNotify(t) ==
  /\ tasks[t].pc = "catchNotify"
  /\ \/ /\ NoFault
        /\ notifications' = notifications \cup
             { [ run |-> t, userId |-> tasks[t].user, type |-> "error",
                 title |-> "Analysis Failed", disease |-> Unset,
                 analysisId |-> tasks[t].id ] }
        /\ tasks' = [tasks EXCEPT ![t] = Finished(@, "done")]
     \/ /\ Fault
        /\ tasks' = [tasks EXCEPT ![t] = Finished(@, "rejected")]
        /\ UNCHANGED notifications
  /\ response' = NoResponse
  /\ UNCHANGED << analyses, nextId, diseaseClassifications, cellCounts, now,
                  req, nTasks, runtime, gen, pages >>

\* --------------------------------------------------------- getAnalysisById
RowsOf(coll, id) ==
  LET Mine(row) == row.analysisId = id IN SelectSeq(coll, Mine)

GetLoad(id, user) ==
  /\ Ready
  /\ AfterLoad("get", "classes", id, user,
               IF id \in DOMAIN analyses THEN Loaded(id) ELSE NoDoc)
  /\ UNCHANGED << store, tasks, nTasks, runtime, gen, pages >>

\* DiseaseClassification.find({ analysisId }).sort({ probability: -1 })
GetClassifications ==
  /\ req.op = "get" /\ req.pc = "classes"
  /\ \/ /\ NoFault
        /\ req' = [req EXCEPT !.pc = "cells", !.classifications =
             SortDesc(RowsOf(diseaseClassifications, req.id), "probability")]
        /\ response' = NoResponse
     \/ /\ Fault
        /\ response' = Reply(500, << >>)
        /\ req' = Idle
  /\ UNCHANGED << store, tasks, nTasks, runtime, gen, pages >>

\* CellCount.find({ analysisId }).sort({ percentage: -1 }); res.json(...)
GetCellCounts ==
  /\ req.op = "get" /\ req.pc = "cells"
  /\ \/ /\ NoFault
        /\ response' = Reply(200,
             [ analysis |-> req.doc.vals,
               diseaseClassifications |-> req.classifications,
               cellCounts |->
                 SortDesc(RowsOf(cellCounts, req.id), "percentage") ])
     \/ /\ Fault
        /\ response' = Reply(500, << >>)
  /\ req' = Idle
  /\ UNCHANGED << store, tasks, nTasks, runtime, gen, pages >>

\* ---------------------------------------------------------- deleteAnalysis
Without(coll, id) ==
  LET Others(row) == row.analysisId # id IN SelectSeq(coll, Others)

DelLoad(id, user) ==
  /\ Ready
  /\ AfterLoad("delete", "classes", id, user,
               IF id \in DOMAIN analyses THEN Loaded(id) ELSE NoDoc)
  /\ UNCHANGED << store, tasks, nTasks, runtime, gen, pages >>

\* DiseaseClassification.deleteMany({ analysisId: id })
DelClassifications ==
  /\ req.op = "delete" /\ req.pc = "classes"
  /\ \/ /\ NoFault
        /\ diseaseClassifications' = Without(diseaseClassifications, req.id)
        /\ req' = [req EXCEPT !.pc = "cells"]
        /\ response' = NoResponse
     \/ /\ Fault
        /\ response' = Reply(500, << >>)
        /\ req' = Idle
        /\ UNCHANGED diseaseClassifications
  /\ UNCHANGED << analyses, nextId, cellCounts, notifications, now,
                  tasks, nTasks, runtime, gen, pages >>

\* CellCount.deleteMany({ analysisId: id })
DelCellCounts ==
  /\ req.op = "delete" /\ req.pc = "cells"
  /\ \/ /\ NoFault
        /\ cellCounts' = Without(cellCounts, req.id)
        /\ req' = [req EXCEPT !.pc = "analysis"]
        /\ response' = NoResponse
     \/ /\ Fault
        /\ response' = Reply(500, << >>)
        /\ req' = Idle
        /\ UNCHANGED cellCounts
  /\ UNCHANGED << analyses, nextId, diseaseClassifications, notifications,
                  now, tasks, nTasks, runtime, gen, pages >>

\* analysis.deleteOne(); res.json(...)
\* A variant that clears the timers of the analysis it deletes.
DelAnalysisClearsTimers ==
  /\ req.op = "delete" /\ req.pc = "analysis"
  /\ \/ /\ NoFault
        /\ analyses' = [i \in DOMAIN analyses \ {req.id} |-> analyses[i]]
        /\ tasks' = [t \in TaskIds |->
                       IF tasks[t].id = req.id /\ tasks[t].pc = "timer"
                         THEN [tasks[t] EXCEPT !.pc = "none"]
                         ELSE tasks[t]]
        /\ response' = Reply(200, << >>)
     \/ /\ Fault
        /\ response' = Reply(500, << >>)
        /\ UNCHANGED << analyses, tasks >>
  /\ req' = Idle
  /\ UNCHANGED << nextId, diseaseClassifications, cellCounts, notifications,
                  now, nTasks, runtime, gen, pages >>

DelAnalysis ==
  /\ req.op = "delete" /\ req.pc = "analysis"
  /\ \/ /\ NoFault
        /\ analyses' = [i \in DOMAIN analyses \ {req.id} |-> analyses[i]]
        /\ response' = Reply(200, << >>)
     \/ /\ Fault
        /\ response' = Reply(500, << >>)
        /\ UNCHANGED analyses
  /\ req' = Idle
  /\ UNCHANGED << nextId, diseaseClassifications, cellCounts, notifications,
                  now, tasks, nTasks, runtime, gen, pages >>

\* ----------------------------------------------------------- specification
\* The users are interchangeable: the one who creates the first analysis
\* is called u1.
Creators == IF nextId = 0 THEN { "u1" } ELSE Users

Next ==
  \/ \E user \in Creators, imageUrl \in ImageUrls :
       createAnalysis(user, imageUrl)
  \/ \E id \in Ids, user \in Users : ProcLoad(id, user)
  \/ ProcSave
  \/ \E t \in TaskIds : SaveResult(t)
  \/ \E t \in TaskIds : InsertClassifications(t)
  \/ \E t \in TaskIds : InsertCellCounts(t)
  \/ \E t \in TaskIds : NotifySuccess(t)
  \/ \E t \in TaskIds : CatchSave(t)
  \/ \E t \in TaskIds : CatchNotify(t)
  \/ \E id \in Ids, user \in Users : GetLoad(id, user)
  \/ GetClassifications
  \/ GetCellCounts
  \/ \E id \in Ids, user \in Users : DelLoad(id, user)
  \/ DelClassifications
  \/ DelCellCounts
  \/ DelAnalysis

Spec == Init /\ [][Next]_vars

\* ---------------------------------------- the result generators on their own
\* A generator is run once under a random source drawn at the start.
GenInit ==
  /\ Started
  /\ runtime = "absent"
  /\ Mounted
  /\ stats = NoStats
  /\ gen \in { [pc |-> "seeded", seed |-> seed, result |-> Unset] :
                seed \in Seeds }

\* generateMockAnalysisResults() of the server.
GenerateMock ==
  /\ gen.pc = "seeded"
  /\ gen' = [gen EXCEPT !.pc = "server",
                        !.result = Some(generateMockAnalysisResults(gen.seed))]
  /\ UNCHANGED << store, req, response, tasks, nTasks, faults, runtime, pages >>

\* generateAnalysisResults(analysisId) of the browser client.
GenerateClient ==
  /\ gen.pc = "seeded"
  /\ gen' = [gen EXCEPT !.pc = "client",
                        !.result = Some(generateAnalysisResults(gen.seed))]
  /\ UNCHANGED << store, req, response, tasks, nTasks, faults, runtime, pages >>

GenNext == GenerateMock \/ GenerateClient

GenSpec == GenInit /\ [][GenNext]_vars

\* ------------------------------------------------------- Upload component
\* The server and the generator, which the browser components leave alone.
server == << store, req, response, tasks, nTasks, faults, runtime, gen >>

maxFileSize == 10
allowedTypes ==
  { "image/jpeg", "image/png", "image/gif", "image/bmp", "image/tiff" }

\* The files a user offers: a good one, one of a wrong type, one too large.
Files ==
  { [type |-> "image/png", size |-> 1024 * 1024],
    [type |-> "application/pdf", size |-> 1024 * 1024],
    [type |-> "image/png", size |-> 11 * 1024 * 1024] }

ProgressStep == 10
ProgressCap == 95
IntervalMs == 500
TimeoutMs == 3000

\* The interval can tick this often before the completion timer is due.
MaxTicks == TimeoutMs \div IntervalMs

Min(a, b) == IF a < b THEN a ELSE b

\* Lines 34-58 (the preview is left out).
handleFileChange(file) ==
  /\ upload' =
       IF file.type \notin allowedTypes
       THEN [upload EXCEPT !.error = Some("type")]
       ELSE IF file.size > maxFileSize * 1024 * 1024
       THEN [upload EXCEPT !.error = Some("size")]
       ELSE [upload EXCEPT !.error = Unset, !.selectedFile = Some(file)]
  /\ UNCHANGED << server, history, stats >>

\* Lines 91-100, up to the await.  The button is disabled while a run is
\* uploading or processing (262).
handleUpload ==
  /\ upload.selectedFile # Unset
  /\ upload.uploadStatus \notin { "uploading", "processing" }
  /\ \E r \in 1..MaxRuns :
       /\ upload.runs[r].pc = "none"
       /\ \A q \in 1..(r - 1) : upload.runs[q].pc # "none"
       /\ upload' = [upload EXCEPT !.uploadStatus = "uploading",
                                   !.progress = 0,
                                   !.runs[r] = [NoRun EXCEPT !.pc = "post"]]
  /\ UNCHANGED << server, history, stats >>

\* Lines 100-102 with analyzeImage (services/api.ts 53-58): a progress event
\* of the request, loaded out of MaxChunks.
onUploadProgress(r, loaded) ==
  /\ upload.runs[r].pc = "post"
  /\ loaded > upload.runs[r].loaded
  /\ upload' = [upload EXCEPT !.progress = RoundDiv(loaded * 100, MaxChunks),
                              !.runs[r].loaded = loaded]
  /\ UNCHANGED << server, history, stats >>

\* Lines 104-129: the request succeeded; the interval and the timer start.
UploadResolved(r) ==
  /\ upload.runs[r].pc = "post"
  /\ upload' = [upload EXCEPT !.uploadStatus = "processing",
                              !.runs[r].pc = "timers",
                              !.runs[r].interval = TRUE]
  /\ UNCHANGED << server, history, stats >>

\* Lines 131-136: the request failed.
UploadRejected(r) ==
  /\ upload.runs[r].pc = "post"
  /\ upload' = [upload EXCEPT !.uploadStatus = "error",
                              !.error = Some("upload"),
                              !.runs[r].pc = "done"]
  /\ UNCHANGED << server, history, stats >>

\* Lines 108-116: a tick of the interval of run r.
processingInterval(r) ==
  /\ upload.runs[r].pc = "timers"
  /\ upload.runs[r].interval
  /\ upload.runs[r].ticks < MaxTicks
  /\ LET newProgress == Min(upload.progress + ProgressStep, ProgressCap)
     IN upload' = [upload EXCEPT !.progress = newProgress,
                                 !.runs[r].ticks = @ + 1,
                                 !.runs[r].interval = newProgress < ProgressCap]
  /\ UNCHANGED << server, history, stats >>

\* Lines 119-129: the completion timer of run r.
CompletionTimer(r) ==
  /\ upload.runs[r].pc = "timers"
  /\ upload' = [upload EXCEPT !.progress = 100,
                              !.uploadStatus = "complete",
                              !.runs[r].pc = "done",
                              !.runs[r].interval = FALSE]
  /\ UNCHANGED << server, history, stats >>

\* Lines 140-149: the Cancel button, shown while a file is selected (250).
resetForm ==
  /\ upload.selectedFile # Unset
  /\ upload' = [upload EXCEPT !.selectedFile = Unset,
                              !.error = Unset,
                              !.uploadStatus = "idle",
                              !.progress = 0]
  /\ UNCHANGED << server, history, stats >>

UploadNext ==
  \/ \E file \in Files : handleFileChange(file)
  \/ handleUpload
  \/ \E r \in 1..MaxRuns, loaded \in 1..MaxChunks : onUploadProgress(r, loaded)
  \/ \E r \in 1..MaxRuns : UploadResolved(r)
  \/ \E r \in 1..MaxRuns : UploadRejected(r)
  \/ \E r \in 1..MaxRuns : processingInterval(r)
  \/ \E r \in 1..MaxRuns : CompletionTimer(r)
  \/ resetForm

\* The component on its own, beside an idle server.
UploadInit == Init /\ runtime = "absent"

UploadSpec == UploadInit /\ [][UploadNext]_vars

\* ---------------------------------------------------- HistoryPage component
\* The strings that are searched are sequences of characters.
UpperCase == << "M", "N" >>
LowerCase == << "m", "n" >>

toLowerCase(str) ==
  [ i \in 1..Len(str) |->
      IF \E k \in 1..Len(UpperCase) : UpperCase[k] = str[i]
      THEN LowerCase[CHOOSE k \in 1..Len(UpperCase) : UpperCase[k] = str[i]]
      ELSE str[i] ]

\* String.prototype.includes.
includes(str, searchString) ==
  \E i \in 0..(Len(str) - Len(searchString)) :
    SubSeq(str, i + 1, i + Len(searchString)) = searchString

\* What GET /api/analyses can return: records of the AnalysisResult
\* interface (7-26), which has _id and no id.
ServerRows ==
  << [_id |-> << "a", "1" >>, status |-> "completed",
      disease |-> Some(<< "M", "a" >>)],
     [_id |-> << "b", "2" >>, status |-> "pending", disease |-> Unset],
     [_id |-> << "c", "3" >>, status |-> "completed",
      disease |-> Some(<< "N", "o" >>)] >>

RowIds == { ServerRows[i]._id : i \in 1..Len(ServerRows) }

SearchTerms == { << >>, << "M", "a" >>, << "2" >> }
StatusFilters == { "all", "completed", "processing", "pending", "failed" }

\* a.id of a record: the interface has no such field.
IdOf(a) == IF "id" \in DOMAIN a THEN a.id ELSE Unset

\* Lines 46-48 and 63-79: the effect that recomputes filteredAnalyses.
filterAnalyses(h) ==
  LET term == toLowerCase(h.searchTerm)
      Keep(a) ==
        /\ h.statusFilter = "all" \/ a.status = h.statusFilter
        /\ \/ h.searchTerm = << >>
           \/ a.disease # Unset /\ includes(toLowerCase(a.disease[1]), term)
           \/ includes(toLowerCase(a._id), term)
  IN [h EXCEPT !.filteredAnalyses = SelectSeq(h.analyses, Keep)]

Shown == { history.filteredAnalyses[i] :
             i \in 1..Len(history.filteredAnalyses) }
ShownIds == { a._id : a \in Shown }

\* Lines 42-44 and 50-61: the effect run on mount, the user being logged in.
loadAnalyses(n) ==
  /\ history.loading
  /\ \/ history' = filterAnalyses(
          [history EXCEPT !.analyses = SubSeq(ServerRows, 1, n),
                          !.loading = FALSE])
     \/ history' = filterAnalyses([history EXCEPT !.loading = FALSE])
  /\ UNCHANGED << server, upload, stats >>

\* Line 155.
setSearchTerm(term) ==
  /\ term # history.searchTerm
  /\ history' = filterAnalyses([history EXCEPT !.searchTerm = term])
  /\ UNCHANGED << server, upload, stats >>

\* Line 164.
setStatusFilter(status) ==
  /\ status # history.statusFilter
  /\ history' = filterAnalyses([history EXCEPT !.statusFilter = status])
  /\ UNCHANGED << server, upload, stats >>

\* Lines 109-117: the checkbox of a displayed row.
toggleSelection(id) ==
  /\ ~history.loading
  /\ \E a \in Shown : a._id = id
  /\ history' =
       [history EXCEPT !.selectedIds =
          IF id \in @ THEN @ \ { id } ELSE @ \cup { id }]
  /\ UNCHANGED << server, upload, stats >>

\* Lines 119-125: the checkbox of the table header (196-222).
toggleSelectAll ==
  /\ ~history.loading
  /\ history.filteredAnalyses # << >>
  /\ history' =
       [history EXCEPT !.selectedIds =
          IF Cardinality(@) = Len(history.filteredAnalyses)
          THEN {}
          ELSE { IdOf(a) : a \in Shown }]
  /\ UNCHANGED << server, upload, stats >>

\* Lines 81-85 and 95-100: a confirmed delete sends its requests; the
\* handler keeps the analyses and selectedIds of the render it was made in.
DeleteSent(ids) ==
  /\ history.deleting = Unset
  /\ history' =
       [history EXCEPT !.deleting =
          Some([ids |-> ids, analyses |-> history.analyses,
                selectedIds |-> history.selectedIds])]
  /\ UNCHANGED << server, upload, stats >>

handleDelete(id) ==
  /\ ~history.loading
  /\ \E a \in Shown : a._id = id
  /\ DeleteSent({ id })

handleBulkDelete ==
  /\ history.selectedIds # {}
  /\ DeleteSent(history.selectedIds)

\* Lines 86-92 and 101-106: the requests are answered.  A request for an id
\* that is no _id fails.
Kept(rows, ids) ==
  LET Keep(a) == a._id \notin ids IN SelectSeq(rows, Keep)

DeleteAnswered ==
  /\ history.deleting # Unset
  /\ LET d == history.deleting[1]
     IN \/ /\ Unset \notin d.ids
           /\ history' = filterAnalyses(
                [history EXCEPT !.analyses = Kept(d.analyses, d.ids),
                                !.selectedIds = d.selectedIds \ d.ids,
                                !.deleting = Unset])
        \/ history' = [history EXCEPT !.deleting = Unset]
  /\ UNCHANGED << server, upload, stats >>

HistoryNext ==
  \/ \E n \in 0..MaxRows : loadAnalyses(n)
  \/ \E term \in SearchTerms : setSearchTerm(term)
  \/ \E status \in StatusFilters : setStatusFilter(status)
  \/ \E id \in RowIds : toggleSelection(id)
  \/ toggleSelectAll
  \/ \E id \in RowIds : handleDelete(id)
  \/ handleBulkDelete
  \/ DeleteAnswered

\* The component on its own, beside an idle server.
HistoryInit == Init /\ runtime = "absent"

HistorySpec == HistoryInit /\ [][HistoryNext]_vars

\* ----------------------------------------------------- analytics controller
\* Dates are calendar days [y, m, d] with m in 0..11 as Date.getMonth() gives
\* it; two dates are compared by their day.
IsLeap(y) == y % 4 = 0 /\ (y % 100 # 0 \/ y % 400 = 0)

DaysIn(y, m) ==
  IF m = 1 THEN (IF IsLeap(y) THEN 29 ELSE 28)
  ELSE IF m \in { 3, 5, 8, 10 } THEN 30
  ELSE 31

\* Date.prototype.setMonth(getMonth() + delta): the day of the month is kept,
\* and a day the target month does not have runs over into the next month.
setMonth(date, delta) ==
  LET idx == date.y * 12 + date.m + delta
      y1 == idx \div 12
      m1 == idx % 12
  IN IF date.d <= DaysIn(y1, m1)
     THEN [y |-> y1, m |-> m1, d |-> date.d]
     ELSE [y |-> (idx + 1) \div 12, m |-> (idx + 1) % 12,
           d |-> date.d - DaysIn(y1, m1)]

\* a >= b on dates.
NotBefore(a, b) ==
  \/ a.y > b.y
  \/ a.y = b.y /\ a.m > b.m
  \/ a.y = b.y /\ a.m = b.m /\ a.d >= b.d

MonthNames ==
  << "Jan", "Feb", "Mar", "Apr", "May", "Jun",
     "Jul", "Aug", "Sep", "Oct", "Nov", "Dec" >>

\* toLocaleDateString('en-US', { month: 'short', year: 'numeric' }).
monthKey(date) == << MonthNames[date.m + 1], date.y >>

\* Map.prototype.set on a map held as the sequence of its entries: a new key
\* goes to the end, a key that is present keeps its place.
MapHas(map, key) == \E i \in 1..Len(map) : map[i].month = key

MapSet(map, key, value) ==
  IF MapHas(map, key)
  THEN [ i \in 1..Len(map) |->
           IF map[i].month = key THEN [map[i] EXCEPT !.count = value]
           ELSE map[i] ]
  ELSE Append(map, [month |-> key, count |-> value])

\* Lines 58-65: the six keys set in turn.
RECURSIVE monthCounts(_, _)
monthCounts(date, i) ==
  IF i < 0 THEN << >>
  ELSE MapSet(monthCounts(date, i - 1), monthKey(setMonth(date, 0 - (5 - i))), 0)

\* The analyses of a user among the stored ones.
OfUser(docs, user) == { i \in 1..Len(docs) : docs[i].userId = user }

\* Lines 50-82.
getMonthlyData(date, docs, user) ==
  LET sixMonthsAgo == setMonth(date, 0 - 6)
      found == { i \in OfUser(docs, user) :
                   NotBefore(docs[i].createdAt, sixMonthsAgo) }
      empty == monthCounts(date, 5)
  IN [ i \in 1..Len(empty) |->
         [ month |-> empty[i].month,
           count |-> Cardinality({ a \in found :
                       monthKey(docs[a].createdAt) = empty[i].month }) ] ]

RECURSIVE SumOver(_, _)
SumOver(docs, ids) ==
  IF ids = {} THEN 0
  ELSE LET a == CHOOSE a \in ids : TRUE
       IN (IF docs[a].confidenceScore = Unset THEN 0
           ELSE docs[a].confidenceScore[1])
          + SumOver(docs, ids \ { a })

\* Lines 6-41.  averageConfidence and positiveDetectionRate are in tenths.
getDashboardStats(date, docs, user) ==
  LET allAnalyses == { i \in OfUser(docs, user) :
                         docs[i].status = "completed" }
      thisMonthStart == [date EXCEPT !.d = 1]
      thisMonthAnalyses ==
        Cardinality({ i \in OfUser(docs, user) :
                        NotBefore(docs[i].createdAt, thisMonthStart) })
      totalAnalyses == Cardinality(allAnalyses)
      positiveDetections ==
        Cardinality({ i \in allAnalyses :
                        /\ docs[i].diseaseDetected # Unset
                        /\ docs[i].diseaseDetected[1] # "Normal" })
  IN [ totalAnalyses |-> totalAnalyses,
       thisMonthAnalyses |-> thisMonthAnalyses,
       averageConfidence |->
         IF totalAnalyses > 0
         THEN RoundDiv(SumOver(docs, allAnalyses), 10 * totalAnalyses)
         ELSE 0,
       positiveDetectionRate |->
         IF totalAnalyses > 0
         THEN RoundDiv(positiveDetections * 1000, totalAnalyses)
         ELSE 0 ]

\* The days on which a request is served, and the analyses it can find: of
\* either user, pending or completed, created in the current month, five or
\* six months earlier, and not after the request.
Years == { 2024 }
DaysOfInterest == { 1, 15, 28, 29, 30, 31 }
MonthsBack == { 0, 5, 6 }
CreationDays == { 1, 28 }

Todays ==
  { date \in [y : Years, m : 0..11, d : DaysOfInterest] :
      date.d <= DaysIn(date.y, date.m) }

Outcomes ==
  { [status |-> "pending", diseaseDetected |-> Unset,
     confidenceScore |-> Unset],
    [status |-> "completed", diseaseDetected |-> Some("Normal"),
     confidenceScore |-> Some(9000)],
    [status |-> "completed", diseaseDetected |-> Some("Anemia"),
     confidenceScore |-> Some(8512)] }

StoredAt(date) ==
  { a \in
      { [ userId |-> user, status |-> o.status,
          diseaseDetected |-> o.diseaseDetected,
          confidenceScore |-> o.confidenceScore,
          createdAt |->
            [setMonth([date EXCEPT !.d = 1], 0 - k) EXCEPT !.d = day] ] :
          user \in Users, o \in Outcomes, k \in MonthsBack,
          day \in CreationDays } :
      NotBefore(date, a.createdAt) }

Stores(date) ==
  UNION { [1..n -> StoredAt(date)] : n \in 0..MaxStored }

StatsInit ==
  /\ Started
  /\ runtime = "absent"
  /\ gen = NoGen
  /\ Mounted
  /\ \E date \in Todays :
       stats \in { [pc |-> "request", now |-> date, analyses |-> docs,
                    result |-> Unset] : docs \in Stores(date) }

\* GET /dashboard-stats: 200 with the statistics, or 500 when a query
\* fails (42-45).
DashboardStats(user) ==
  /\ stats.pc = "request"
  /\ \/ stats' = [stats EXCEPT
                    !.pc = "dashboard",
                    !.result = Some(Reply(200,
                      getDashboardStats(stats.now, stats.analyses, user)))]
     \/ stats' = [stats EXCEPT !.pc = "dashboard",
                                !.result = Some(Reply(500, << >>))]
  /\ UNCHANGED << server, upload, history >>

\* GET /monthly-data: 200 with the buckets, or 500 when the query fails
\* (83-86).
MonthlyData(user) ==
  /\ stats.pc = "request"
  /\ \/ stats' = [stats EXCEPT
                    !.pc = "monthly",
                    !.result = Some(Reply(200,
                      getMonthlyData(stats.now, stats.analyses, user)))]
     \/ stats' = [stats EXCEPT !.pc = "monthly",
                                !.result = Some(Reply(500, << >>))]
  /\ UNCHANGED << server, upload, history >>

StatsNext ==
  \/ \E user \in Users : DashboardStats(user)
  \/ \E user \in Users : MonthlyData(user)

StatsSpec == StatsInit /\ [][StatsNext]_vars

\* ------------------------------------------------------------- properties
Present == DOMAIN analyses
Deleted == (1..nextId) \ DOMAIN analyses

LegalTransitions ==
  { << "pending", "processing" >>, << "processing", "completed" >>,
    << "processing", "failed" >> }

\* C1: across every step, the persisted status of an analysis either stays
\* as it is or changes along pending -> processing, processing -> completed
\* or processing -> failed.
C1_StatusTransitions ==
  [][ \A id \in Present \cap DOMAIN analyses' :
        \/ analyses'[id].status = analyses[id].status
        \/ << analyses[id].status, analyses'[id].status >> \in LegalTransitions
    ]_vars

\* The body of a successful getAnalysisById response.
IsGetBody(r) == r.code = 200 /\ "analysis" \in DOMAIN r.body

OncePerLabel(rows, field, labels) ==
  /\ Len(rows) = Cardinality(labels)
  /\ \A l \in labels : \E i \in 1..Len(rows) : rows[i][field] = l

\* C2: a getAnalysisById response that shows status completed carries
\* exactly one DiseaseClassification row per disease label (10 rows) and
\* exactly one CellCount row per cell type (5 rows).
C2_CompletedDetails ==
  (IsGetBody(response) /\ response.body.analysis.status = "completed") =>
     /\ OncePerLabel(response.body.diseaseClassifications, "diseaseName",
                     DiseaseNames)
     /\ OncePerLabel(response.body.cellCounts, "cellType", CellNames)

\* C3: an analysis whose persisted status is failed has no
\* DiseaseClassification row and no CellCount row.
C3_FailedHasNoRows ==
  \A id \in Present :
    analyses[id].status = "failed" =>
      /\ RowsOf(diseaseClassifications, id) = << >>
      /\ RowsOf(cellCounts, id) = << >>

NotesOfRun(t, type) == { n \in notifications : n.run = t /\ n.type = type }

\* C4: a completion callback that is in its catch block because a store
\* write was rejected goes on to persist status failed, then to write
\* exactly one error notification and no success notification, and returns:
\* its promise never rejects.
C4_FailureIsContained ==
  [][ \A t \in TaskIds :
        (tasks[t].error = "store" /\ tasks'[t] # tasks[t]) =>
          \/ /\ tasks[t].pc = "catchSave"
             /\ tasks'[t].pc = "catchNotify"
             /\ analyses'[tasks[t].id].status = "failed"
          \/ /\ tasks[t].pc = "catchNotify"
             /\ tasks'[t].pc = "done"
             /\ Cardinality(NotesOfRun(t, "error")') = 1
             /\ NotesOfRun(t, "success")' = {}
    ]_vars

\* C7: no DiseaseClassification or CellCount row references an analysis
\* that has been deleted.
C7_NoOrphanRows ==
  \A id \in Deleted :
    /\ RowsOf(diseaseClassifications, id) = << >>
    /\ RowsOf(cellCounts, id) = << >>

\* C8: the six diagnostic fields of an analysis are populated only while
\* its persisted status is completed.
C8_FieldsOnlyWhenCompleted ==
  \A id \in Present :
    analyses[id].status # "completed" =>
      \A f \in ResultFields : analyses[id][f] = Unset

\* ------------------------------------------- fallback when inference fails
\* The behaviours in which the inference runtime is absent and no store
\* operation is rejected by a fault; timers fire and awaited operations
\* settle, so a callback that can take a step eventually takes it.
LiveInit == Init /\ runtime = "absent"

LiveNext ==
  \/ \E user \in Creators, imageUrl \in ImageUrls :
       createAnalysis(user, imageUrl) /\ NoFault
  \/ \E id \in Ids, user \in Users : ProcLoad(id, user) /\ NoFault
  \/ ProcSave /\ NoFault
  \/ \E t \in TaskIds : SaveResult(t) /\ NoFault
  \/ \E t \in TaskIds : InsertClassifications(t) /\ NoFault
  \/ \E t \in TaskIds : InsertCellCounts(t) /\ NoFault
  \/ \E t \in TaskIds : NotifySuccess(t) /\ NoFault
  \/ \E t \in TaskIds : CatchSave(t) /\ NoFault
  \/ \E id \in Ids, user \in Users : GetLoad(id, user) /\ NoFault
  \/ GetClassifications /\ NoFault
  \/ GetCellCounts /\ NoFault
  \/ \E id \in Ids, user \in Users : DelLoad(id, user) /\ NoFault
  \/ DelClassifications /\ NoFault
  \/ DelCellCounts /\ NoFault
  \/ DelAnalysis /\ NoFault

\* The next step of completion callback t.
TaskStep(t) ==
  \/ SaveResult(t)
  \/ InsertClassifications(t)
  \/ InsertCellCounts(t)
  \/ NotifySuccess(t)
  \/ CatchSave(t)

LiveSpec ==
  /\ LiveInit
  /\ [][LiveNext]_vars
  /\ \A t \in TaskIds : WF_vars(TaskStep(t) /\ NoFault)

\* The six diagnostic fields of a stored analysis are those of a result of
\* the Result Generator, all of them populated.
FromGenerator(doc) ==
  \E seed \in TaskSeeds :
    \A f \in ResultFields :
      doc[f] # Unset /\ doc[f] = MockResults[seed][f]

\* C5: with the inference runtime absent and no store operation failing,
\* every analysis with a scheduled completion callback eventually has
\* status completed (unless it has been deleted, in which case the save of
\* the callback was rejected); no analysis ever has status failed, and a
\* completed analysis has its six diagnostic fields populated from the
\* Result Generator.
C5_FallbackCompletes ==
  /\ \A t \in TaskIds :
       (tasks[t].pc = "timer") ~>
          (\/ tasks[t].id \notin Present
           \/ analyses[tasks[t].id].status = "completed")
  /\ [](\A id \in Present :
          /\ analyses[id].status # "failed"
          /\ analyses[id].status = "completed" => FromGenerator(analyses[id]))

C5_Witness ==
  /\ runtime = "absent"
  /\ \E t \in TaskIds :
       /\ tasks[t].pc = "done"
       /\ tasks[t].id \in Present
       /\ analyses[tasks[t].id].status = "completed"
       /\ FromGenerator(analyses[tasks[t].id])

\* C6: when findById returns an analysis that the requester does not own,
\* processAnalysis, getAnalysisById and deleteAnalysis answer 403 whatever
\* the status of the analysis, leave the collections unchanged and schedule
\* no callback.
C6_NonOwnerRejected ==
  [][ \A id \in Present, user \in Users :
        ( /\ analyses[id].userId # user
          /\ NoFault
          /\ ProcLoad(id, user) \/ GetLoad(id, user) \/ DelLoad(id, user) )
        => /\ response'.code = 403
           /\ req' = Idle
           /\ UNCHANGED << store, tasks, nTasks >>
    ]_vars

C6_Witness ==
  /\ response.code = 403
  /\ \E id \in Present :
       /\ analyses[id].status = "completed"
       /\ RowsOf(cellCounts, id) # << >>
  /\ \E t \in TaskIds : tasks[t].pc = "done"

\* C9: createAnalysis without an image URL answers 400 and writes nothing;
\* with one (and the store accepting the write) it answers 201 and adds
\* exactly one analysis, owned by the requester, pending, with no diagnostic
\* field and no completedAt; it writes no detail row and no notification and
\* schedules no callback.
C9_Create ==
  [][ \A user \in Users, imageUrl \in ImageUrls :
        (createAnalysis(user, imageUrl) /\ NoFault) =>
          /\ UNCHANGED << diseaseClassifications, cellCounts, notifications,
                          tasks, nTasks >>
          /\ imageUrl = "" =>
               response'.code = 400 /\ analyses' = analyses
          /\ imageUrl # "" =>
               /\ response'.code = 201
               /\ Cardinality(DOMAIN analyses' \ DOMAIN analyses) = 1
               /\ \A id \in DOMAIN analyses : 
                    id \in DOMAIN analyses' /\ analyses'[id] = analyses[id]
               /\ \A id \in DOMAIN analyses' \ DOMAIN analyses :
                    /\ analyses'[id].userId = user
                    /\ analyses'[id].imageUrl = imageUrl
                    /\ analyses'[id].status = "pending"
                    /\ analyses'[id].completedAt = Unset
                    /\ \A f \in ResultFields : analyses'[id][f] = Unset
    ]_vars

C9_Witness ==
  /\ response.code = 201
  /\ response.body.userId = "u2"
  /\ Cardinality(Present) = 2

\* C10: the step in which processAnalysis schedules its callback leaves the
\* analysis stored with status processing and sends the 200 response, the
\* callback not having taken a step.
C10_AckBeforeCompletion ==
  [][ nTasks' # nTasks =>
        /\ nTasks' = nTasks + 1
        /\ analyses'[req.id].status = "processing"
        /\ response'.code = 200
        /\ tasks'[nTasks'].pc = "timer"
        /\ tasks'[nTasks'].id = req.id
    ]_vars

\* ------------------------------------------------------ inference outcomes
\* C11: whatever the inference runtime answers, when no store operation
\* fails (none rejected by a fault, which leaves only the save of a deleted
\* analysis, and that stores nothing) no analysis is stored as failed: an
\* outcome that is not a fully populated result is replaced by the Result
\* Generator's.
C11_EveryOutcomeFallsBack ==
  faults = 0 => \A id \in Present : analyses[id].status # "failed"

\* ------------------------------------------------------------ notifications
\* The callbacks scheduled for analysis id, and the notifications about it.
RunsOf(id) == { t \in TaskIds : tasks[t].pc # "none" /\ tasks[t].id = id }
NotesOf(id) == { n \in notifications : n.analysisId = id }

\* Analysis id is completed, after one accepted processAnalysis call whose
\* callback has returned, no store operation having failed.
CompletedOnce(id) ==
  /\ faults = 0
  /\ analyses[id].status = "completed"
  /\ Cardinality(RunsOf(id)) = 1
  /\ \A t \in RunsOf(id) : tasks[t].pc = "done"

\* C12: an analysis completed by its one callback, with every store write
\* succeeding, has exactly one notification: of type success, addressed to
\* the owner of the analysis and naming its diseaseDetected; none of type
\* error.
C12_OneSuccessNotification ==
  \A id \in Present :
    CompletedOnce(id) =>
      /\ Cardinality(NotesOf(id)) = 1
      /\ \A n \in NotesOf(id) :
           /\ n.type = "success"
           /\ n.userId = analyses[id].userId
           /\ n.disease = analyses[id].diseaseDetected

C12_Witness ==
  \E id \in Present :
    /\ CompletedOnce(id)
    /\ analyses[id].userId = "u2"
    /\ \E n \in NotesOf(id) : n.disease # Unset

\* C14: every notification that carries an analysisId refers to an analysis
\* that exists.
C14_NoDanglingNotification ==
  \A n \in notifications : n.analysisId \in Present

\* --------------------------------------------------------- generated values
\* C13: in what either result generator produces, confidenceScore is within
\* [0,100], and every cell-count row has its percentage within [0,100] and
\* its abnormalCount at most its count.
C13_GeneratedRanges ==
  gen.result # Unset =>
    LET r == gen.result[1]
        rows == r.cellCounts[1]
    IN  /\ r.confidenceScore[1] \in 0..10000
        /\ \A i \in 1..Len(rows) :
             /\ rows[i].percentage \in 0..10000
             /\ rows[i].abnormalCount <= rows[i].count

\* C15: in a result of generateMockAnalysisResults, under every random
\* source, confidenceScore lies in [85,97] and the classification entry of
\* diseaseDetected comes first and has a probability above that of every
\* other entry.
C15_TopRowIsDetected ==
  gen.pc = "server" =>
    LET r == gen.result[1]
        rows == r.diseaseClassifications[1]
    IN  /\ r.confidenceScore[1] \in 8500..9700
        /\ rows[1].diseaseName = r.diseaseDetected[1]
        /\ \A j \in 2..Len(rows) : rows[j].probability < rows[1].probability

C15_Witness ==
  /\ gen.pc = "server"
  /\ gen.result[1].confidenceScore[1] > 9500
  /\ gen.result[1].diseaseDetected[1] = DISEASE_TYPES[Len(DISEASE_TYPES)]

\* ------------------------------------------------- detail rows and status
\* C16: a classification or cell-count row refers only to an analysis whose
\* stored status is completed.
C16_RowsOnlyWhenCompleted ==
  \A id \in Present :
    (RowsOf(diseaseClassifications, id) # << >> \/ RowsOf(cellCounts, id) # << >>)
      => analyses[id].status = "completed"

\* C17: completedAt becomes set only in the write that makes the status
\* completed, that write sets it, and once set it keeps its value.
C17_CompletedAtSetOnce ==
  [][ \A id \in Present \cap DOMAIN analyses' :
        LET old == analyses[id]
            new == analyses'[id]
        IN  /\ (old.completedAt = Unset /\ new.completedAt # Unset)
                 => (old.status # "completed" /\ new.status = "completed")
            /\ (old.status # "completed" /\ new.status = "completed")
                 => new.completedAt # Unset
            /\ old.completedAt # Unset => new.completedAt = old.completedAt
    ]_vars

\* -------------------------------------------------- the completion sequence
\* C18: a stored analysis with status completed has its six diagnostic
\* fields and completedAt set, and so has the analysis of every response of
\* getAnalysisById, whatever the callbacks are doing meanwhile.
Populated(doc) ==
  /\ doc.completedAt # Unset
  /\ \A f \in ResultFields : doc[f] # Unset

CompletionOrder ==
  { << "none", "timer" >>, << "timer", "classes" >>, << "classes", "cells" >>,
    << "cells", "notify" >>, << "notify", "done" >>,
    << "timer", "catchSave" >>, << "classes", "catchSave" >>,
    << "cells", "catchSave" >>, << "notify", "catchSave" >>,
    << "catchSave", "catchNotify" >>, << "catchSave", "rejected" >>,
    << "catchNotify", "done" >>, << "catchNotify", "rejected" >> }

\* Nothing else than callback t has written to the analysis of t or its
\* rows: no store operation has failed, no other callback exists for the
\* analysis, the analysis exists and is not being deleted.
Undisturbed(t) ==
  /\ faults = 0
  /\ tasks[t].id \in Present
  /\ RunsOf(tasks[t].id) = {t}
  /\ ~(req.op = "delete" /\ req.id = tasks[t].id)

Rank(pc) ==
  IF pc = "none" THEN 0
  ELSE IF pc = "timer" THEN 1
  ELSE IF pc \in { "classes", "cells", "notify" } THEN 2
  ELSE IF pc = "catchSave" THEN 3
  ELSE IF pc = "catchNotify" THEN 4
  ELSE 5

TimesPerLabel(rows, field, labels, n) ==
  /\ Len(rows) = n * Cardinality(labels)
  /\ \A l \in labels :
       Cardinality({ i \in 1..Len(rows) : rows[i][field] = l }) = n

\* Two callbacks were scheduled for analysis id and both have ended, no
\* store operation having failed and the analysis not being deleted.
RanTwice(id) ==
  /\ faults = 0
  /\ Cardinality(RunsOf(id)) = 2
  /\ \A t \in RunsOf(id) : tasks[t].pc \in { "done", "rejected" }
  /\ ~(req.op = "delete" /\ req.id = id)

\* C21: the step in which a callback saves its result leaves its six
\* diagnostic fields in the stored analysis (the last save wins), and once
\* two callbacks of one analysis have ended, every store write having
\* succeeded, the analysis is completed with 20 classification rows, 10
\* cell-count rows and two success notifications.
C21_BothRunsComplete ==
  /\ [][ \A t \in TaskIds :
           (tasks[t].pc = "timer" /\ tasks'[t].pc = "classes")
             => \A f \in ResultFields :
                  analyses'[tasks[t].id][f] = tasks'[t].aiResults[1][f]
     ]_vars
  /\ [](\A id \in Present :
          RanTwice(id) =>
            /\ analyses[id].status = "completed"
            /\ TimesPerLabel(RowsOf(diseaseClassifications, id),
                             "diseaseName", DiseaseNames, 2)
            /\ TimesPerLabel(RowsOf(cellCounts, id), "cellType", CellNames, 2)
            /\ Cardinality({ n \in NotesOf(id) : n.type = "success" }) = 2
            /\ \A n \in NotesOf(id) : n.type = "success")

C23_PendingFailedStay ==
  [][ \A id \in Present \cap DOMAIN analyses' :
        (analyses[id].status \in { "pending", "failed" }
           /\ analyses'[id].status # analyses[id].status)
          => /\ req.op = "process" /\ req.id = id
             /\ response'.code = 200
             /\ analyses'[id].status = "processing"
    ]_vars

\* C24: in a result of generateMockAnalysisResults, under every random
\* source, diseaseDetected is one of the 10 labels, the classification
\* table has one entry for each of the 10 labels and the cell differential
\* one entry for each of the 5 cell types.
C24_GeneratedShape ==
  gen.pc = "server" =>
    LET r == gen.result[1]
    IN  /\ r.diseaseDetected[1] \in DiseaseNames
        /\ OncePerLabel(r.diseaseClassifications[1], "diseaseName", DiseaseNames)
        /\ OncePerLabel(r.cellCounts[1], "cellType", CellNames)

C24_Witness ==
  /\ gen.pc = "server"
  /\ IncludesLeukemia(gen.result[1].diseaseDetected[1])
  /\ \E i \in 1..Len(gen.result[1].cellCounts[1]) :
       gen.result[1].cellCounts[1][i].abnormalCount > 0
  /\ gen.seed.stride = 0

\* The runs of handleUpload that have started.
StartedRuns == { r \in 1..MaxRuns : upload.runs[r].pc # "none" }

\* C25: once resetForm has put the Upload component back to idle with
\* progress 0, uploadStatus stays idle and progress stays 0 until the next
\* handleUpload, also while the interval and the completion timer of an
\* earlier run are still pending (no request of an earlier run is in flight).
C25_ResetStaysIdle ==
  [][ ( /\ upload.uploadStatus = "idle"
        /\ upload.progress = 0
        /\ \A r \in 1..MaxRuns : upload.runs[r].pc # "post"
        /\ ~handleUpload )
      => ( upload'.uploadStatus = "idle" /\ upload'.progress = 0 )
    ]_vars

\* C26: while the only run of handleUpload that has started goes from
\* uploading to complete, progress stays within 0..100 and never decreases.
C26_ProgressMonotone ==
  [][ ( /\ Cardinality(StartedRuns) = 1
        /\ upload.uploadStatus \in { "uploading", "processing" }
        /\ upload'.uploadStatus \in { "uploading", "processing", "complete" } )
      => ( /\ upload'.progress \in 0..100
           /\ upload'.progress >= upload.progress )
    ]_vars

\* C27: when not every displayed analysis is selected, toggleSelectAll makes
\* selectedIds the set of the _id values of filteredAnalyses (so every row's
\* checkbox is checked), and when all of them are selected it empties
\* selectedIds.
C27_SelectAll ==
  [][ toggleSelectAll =>
        IF ShownIds \subseteq history.selectedIds
        THEN history'.selectedIds = {}
        ELSE history'.selectedIds = ShownIds
    ]_vars

\* C28: every analysis id in selectedIds is always the _id of a displayed
\* row of filteredAnalyses, so that Delete Selected only issues deletes for
\* analyses that are visible.
C28_SelectedAreShown == (history.selectedIds \ { Unset }) \subseteq ShownIds

\* C29: the dashboard statistics of a user have
\* thisMonthAnalyses <= totalAnalyses.
C29_MonthWithinTotal ==
  (stats.pc = "dashboard" /\ stats.result[1].code = 200) =>
    stats.result[1].body.thisMonthAnalyses <= stats.result[1].body.totalAnalyses

\* The calendar month k months before the month of a date.
MonthsAgo(date, k) ==
  LET idx == date.y * 12 + date.m - k
  IN [y |-> idx \div 12, m |-> idx % 12]

SameMonth(date, month) == date.y = month.y /\ date.m = month.m

\* C30: getMonthlyData returns six buckets, the i-th for the calendar month
\* 6 - i months before the current one (the current month last), and each
\* bucket counts the analyses of the requester created in its month.
C30_SixMonths ==
  [][ \A user \in Users :
        (MonthlyData(user) /\ stats'.result[1].code = 200) =>
          LET buckets == stats'.result[1].body
          IN /\ Len(buckets) = 6
             /\ \A i \in 1..6 :
                  LET month == MonthsAgo(stats.now, 6 - i)
                  IN /\ buckets[i].month = << MonthNames[month.m + 1], month.y >>
                     /\ buckets[i].count =
                          Cardinality({ a \in OfUser(stats.analyses, user) :
                            SameMonth(stats.analyses[a].createdAt, month) })
    ]_vars

====
